---- MODULE Spec2Model ----
(***************************************************************************)
(* ElGamal signatures over the order-q subgroup of Z_p^*, p = 2q + 1.      *)
(* Model of src/Elgamal_Signature.py: Miller-Rabin primality testing,      *)
(* safe-prime generation, generator search, key generation, signing and    *)
(* verification, and the main pipeline that chains them.                   *)
(*                                                                         *)
(* Every draw from the random source is a nondeterministic choice over the *)
(* range the code draws from.  A function that consumes randomness and     *)
(* returns a boolean (is_prime) is the SET of values it can return.        *)
(***************************************************************************)
EXTENDS Integers, Naturals, Sequences, FiniteSets, TLC

(***************************************************************************)
(* Bounds of the model.                                                    *)
(***************************************************************************)
\* bit-lengths of q explored by the full pipeline (generate .. verify)
MaxQBits == 4
\* bit-lengths of q explored by generate_p_q alone
MaxGenBits == 11
\* largest n handed to is_prime on its own
MaxPrimeN == 600
\* largest modulus p, and largest g and y, handed to verify on its own
MaxVerifyP == 7
\* largest subgroup order q handed to verify on its own
MaxVerifyQ == 3
\* highest bit position flipped in the public key
MaxFlipBit == 5

(***************************************************************************)
(* Program constants.                                                      *)
(***************************************************************************)
\* default number of Miller-Rabin rounds, is_prime(n, k = 40)
MRRounds == 40
\* the primes of the trial-division fast path, in the order the loop visits
SmallPrimes == <<2, 3, 5, 7, 11, 13, 17, 19, 23>>
\* width in bits of a byte of the digest
ByteBase == 256

(***************************************************************************)
(* Integer primitives of the language runtime.                             *)
(***************************************************************************)
RECURSIVE Pow2(_)
\* 1 << n
Pow2(n) == IF n = 0 THEN 1 ELSE 2 * Pow2(n - 1)

RECURSIVE BitOr(_, _)
\* a | b on non-negative integers
BitOr(a, b) ==
    IF a = 0 THEN b
    ELSE IF b = 0 THEN a
    ELSE (IF a % 2 = 1 \/ b % 2 = 1 THEN 1 ELSE 0) + 2 * BitOr(a \div 2, b \div 2)

RECURSIVE pow(_, _, _)
\* pow(base, exp, mod) for exp >= 0 and mod > 0, by square and multiply
pow(base, exp, mod) ==
    IF exp = 0 THEN 1 % mod
    ELSE LET half == pow(base, exp \div 2, mod)
             sq   == (half * half) % mod
         IN  IF exp % 2 = 1 THEN (sq * (base % mod)) % mod ELSE sq

RECURSIVE gcd(_, _)
\* math.gcd
gcd(a, b) == IF b = 0 THEN a ELSE gcd(b, a % b)

\* pow(k, -1, q): the inverse of k modulo q; defined when gcd(k, q) = 1
pow_inv(k, q) == CHOOSE i \in 0..(q - 1) : (i * k) % q = 1 % q

\* random.randrange(lo, hi) raises ValueError when the range is empty
randrange_raises(lo, hi) == lo >= hi
\* the values random.randrange(lo, hi) can return
randrange(lo, hi) == lo..(hi - 1)

(***************************************************************************)
(* is_prime: Miller-Rabin with k rounds.                                   *)
(***************************************************************************)
RECURSIVE small_primes_check(_, _)
\* the fast path: "prime", "composite", or "none" when the loop falls through
small_primes_check(n, i) ==
    IF i > Len(SmallPrimes) THEN "none"
    ELSE IF n = SmallPrimes[i] THEN "prime"
    ELSE IF n % SmallPrimes[i] = 0 THEN "composite"
    ELSE small_primes_check(n, i + 1)

RECURSIVE decompose(_, _)
\* n - 1 = 2^r * d with d odd; returns <<r, d>>
decompose(r, d) == IF d % 2 = 0 THEN decompose(r + 1, d \div 2) ELSE <<r, d>>

RECURSIVE squarings(_, _, _)
\* the inner loop: square x up to `left` times; TRUE when n - 1 is reached
squarings(x, left, n) ==
    IF left = 0 THEN FALSE
    ELSE LET x2 == pow(x, 2, n)
         IN  IF x2 = n - 1 THEN TRUE ELSE squarings(x2, left - 1, n)

\* witness_passes without the x == n - 1 test on the first power
witness_passes_no_minus_one(a, r, d, n) ==
    LET x0 == pow(a, d, n)
    IN  IF x0 = 1 THEN TRUE ELSE squarings(x0, r - 1, n)

\* one round of the witness loop with witness a: TRUE when the round passes
witness_passes(a, r, d, n) ==
    LET x0 == pow(a, d, n)
    IN  IF x0 = 1 \/ x0 = n - 1 THEN TRUE ELSE squarings(x0, r - 1, n)

\* the values is_prime(n, k) can return, over all witnesses it can draw
is_prime(n, k) ==
    IF n < 2 THEN {FALSE}
    ELSE LET fast == small_primes_check(n, 1)
         IN  IF fast # "none" THEN {fast = "prime"}
             ELSE LET rd     == decompose(0, n - 1)
                      rounds == {witness_passes(a, rd[1], rd[2], n) :
                                     a \in randrange(2, n - 1)}
                      RECURSIVE witness_loop(_)
                      witness_loop(i) ==
                          IF i = k THEN {TRUE}
                          ELSE UNION {IF pass THEN witness_loop(i + 1) ELSE {FALSE} :
                                          pass \in rounds}
                  IN  witness_loop(0)

(***************************************************************************)
(* generate_prime_candidate, find_generator, hash_message.                 *)
(***************************************************************************)
\* generate_prime_candidate forcing only the lowest bit
generate_prime_candidate_low_only(bits, rand) == BitOr(rand, 1)

\* random bits with the highest and the lowest bit forced to 1
generate_prime_candidate(bits, rand) == BitOr(BitOr(rand, Pow2(bits - 1)), 1)

\* find_generator_g with the exponent (p - 1) // (2q)
find_generator_g_half(h, p, q) == pow(h, (p - 1) \div (2 * q), p)

\* the g computed from the random h
find_generator_g(h, p, q) == pow(h, (p - 1) \div q, p)

\* the messages signed and verified in the model
Messages == {"HELLO WORLD", "test", "b"}

\* hashlib.sha256(msg).digest() on the messages of the model
sha256 ==
    ("HELLO WORLD" :>
        <<120, 126, 199, 109, 202, 253, 32, 193, 144, 142, 176, 147, 106, 18,
          249, 30, 221, 16, 90, 181, 205, 126, 204, 43, 26, 226, 3, 38, 72,
          52, 93, 255>>)
    @@ ("test" :>
        <<159, 134, 208, 129, 136, 76, 125, 101, 154, 47, 234, 160, 197, 90,
          208, 21, 163, 191, 79, 27, 43, 11, 130, 44, 209, 93, 108, 21, 176,
          240, 10, 8>>)
    @@ ("b" :>
        <<62, 35, 232, 22, 0, 57, 89, 74, 51, 137, 79, 101, 100, 225, 177,
          52, 139, 189, 122, 0, 136, 212, 44, 74, 203, 115, 238, 174, 213,
          156, 0, 157>>)

RECURSIVE from_bytes_mod(_, _, _, _)
\* int.from_bytes(bytes, 'big') % m, the big-endian value folded byte by byte
from_bytes_mod(bytes, i, acc, m) ==
    IF i > Len(bytes) THEN acc
    ELSE from_bytes_mod(bytes, i + 1, (acc * ByteBase + bytes[i]) % m, m)

\* the moduli whose reductions are tabulated (every q the pipeline produces)
TabulatedModuli == 1..(16 * MaxQBits)

\* hash_message(msg) % q, computed once per message and tabulated modulus
hash_message_mod_table ==
    [m \in Messages |->
        [qq \in TabulatedModuli |-> from_bytes_mod(sha256[m], 1, 0, qq)]]

\* hash_message(msg) % q
hash_message_mod(m, q) ==
    IF q \in TabulatedModuli THEN hash_message_mod_table[m][q]
    ELSE from_bytes_mod(sha256[m], 1, 0, q)

(***************************************************************************)
(* sign and verify.                                                        *)
(***************************************************************************)
\* sign_s with h + x*r in place of h - x*r
sign_s_plus(kk, h, xx, r, qq) == (pow_inv(kk, qq) * (h + xx * (r % qq))) % qq

\* s of one iteration of sign
sign_s(kk, h, xx, r, qq) == (pow_inv(kk, qq) * (h - xx * (r % qq))) % qq

\* sign_iteration without the s != 0 test
sign_iteration_keep_zero(m, pp, gg, xx, qq, kk) ==
    LET h == hash_message_mod(m, qq)
        r == pow(gg, kk, pp)
    IN  IF gcd(kk, qq) # 1 THEN [ret |-> FALSE, r |-> 0, s |-> 0]
        ELSE IF r = 0 THEN [ret |-> FALSE, r |-> r, s |-> 0]
        ELSE [ret |-> TRUE, r |-> r, s |-> sign_s(kk, h, xx, r, qq)]

\* one iteration of the retry loop of sign with the drawn kk:
\* ret is TRUE when the iteration returns <<r, s>>, FALSE when it continues
sign_iteration(m, pp, gg, xx, qq, kk) ==
    LET h == hash_message_mod(m, qq)
        r == pow(gg, kk, pp)
    IN  IF gcd(kk, qq) # 1 THEN [ret |-> FALSE, r |-> 0, s |-> 0]
        ELSE IF r = 0 THEN [ret |-> FALSE, r |-> r, s |-> 0]
        ELSE LET s == sign_s(kk, h, xx, r, qq)
             IN  [ret |-> s # 0, r |-> r, s |-> s]

\* sig_in_range with s <= q in place of s < q
sig_in_range_inclusive(r, s, pp, qq) == 0 < r /\ r < pp /\ 0 < s /\ s <= qq

\* the range check of verify
sig_in_range(r, s, pp, qq) == 0 < r /\ r < pp /\ 0 < s /\ s < qq

\* verify_equation reducing the digest mod p in place of mod q
verify_equation_digest_mod_p(m, r, s, pp, gg, yy, qq) ==
    LET h  == hash_message_mod(m, pp)
        v1 == (pow(yy, r, pp) * pow(r, s, pp)) % pp
        v2 == pow(gg, h, pp)
    IN  v1 = v2

\* verify_equation raising y to r mod q in place of r
verify_equation_reduced_exp(m, r, s, pp, gg, yy, qq) ==
    LET h  == hash_message_mod(m, qq)
        v1 == (pow(yy, r % qq, pp) * pow(r, s, pp)) % pp
        v2 == pow(gg, h, pp)
    IN  v1 = v2

\* the verification equation
verify_equation(m, r, s, pp, gg, yy, qq) ==
    LET h  == hash_message_mod(m, qq)
        v1 == (pow(yy, r, pp) * pow(r, s, pp)) % pp
        v2 == pow(gg, h, pp)
    IN  v1 = v2

\* verify raises only past the range check, on a zero modulus
verify_raises(sg, pp, qq) == sig_in_range(sg[1], sg[2], pp, qq) /\ (qq = 0 \/ pp = 0)

\* the value verify returns
verify(m, sg, pp, gg, yy, qq) ==
    IF ~sig_in_range(sg[1], sg[2], pp, qq) THEN FALSE
    ELSE verify_equation(m, sg[1], sg[2], pp, gg, yy, qq)

(***************************************************************************)
(* State.                                                                  *)
(***************************************************************************)
VARIABLES
    pc,      \* position in the program
    q_bits,  \* the bit-length read by main
    msg,     \* the message signed and verified
    q, p,    \* generate_p_q
    g,       \* find_generator
    x, y,    \* generate_keys
    k,       \* the last ephemeral exponent drawn by sign
    sig,     \* the pair <<r, s>> returned by sign
    valid,   \* the value returned by verify
    n,       \* the argument of a stand-alone is_prime call
    prime    \* the value returned by a stand-alone is_prime call

vars == <<pc, q_bits, msg, q, p, g, x, y, k, sig, valid, n, prime>>

\* main: q_bits has been read, generate_p_q is about to run
Init ==
    /\ pc = "generate_prime"
    /\ q_bits \in 2..MaxQBits
    /\ msg \in Messages
    /\ q = 0 /\ p = 0 /\ g = 0 /\ x = 0 /\ y = 0 /\ k = 0
    /\ sig = <<0, 0>>
    /\ valid = FALSE
    /\ n = 0 /\ prime = FALSE

(***************************************************************************)
(* generate_p_q and generate_prime.                                        *)
(***************************************************************************)
\* generate_prime: q = generate_prime_candidate(bits)
GeneratePrimeCandidate ==
    /\ pc = "generate_prime"
    /\ \E rand \in 0..(Pow2(q_bits) - 1) :
           q' = generate_prime_candidate(q_bits, rand)
    /\ pc' = "is_prime_q"
    /\ UNCHANGED <<q_bits, msg, p, g, x, y, k, sig, valid, n, prime>>

\* generate_prime: if is_prime(q): return q, else draw again.
\* A rejected candidate is dead (the next iteration overwrites it before any
\* read), so the local is cleared on the way back to the top of the loop.
IsPrimeQ ==
    /\ pc = "is_prime_q"
    /\ \E res \in is_prime(q, MRRounds) :
           /\ pc' = IF res THEN "is_prime_p" ELSE "generate_prime"
           /\ q' = IF res THEN q ELSE 0
    /\ UNCHANGED <<q_bits, msg, p, g, x, y, k, sig, valid, n, prime>>

\* generate_p_q: p = 2q + 1; if is_prime(p): return p, q, else start over
\* (the rejected q and p are dead and cleared likewise)
IsPrimeP ==
    /\ pc = "is_prime_p"
    /\ \E res \in is_prime(2 * q + 1, MRRounds) :
           /\ pc' = IF res THEN "find_generator" ELSE "generate_prime"
           /\ p' = IF res THEN 2 * q + 1 ELSE 0
           /\ q' = IF res THEN q ELSE 0
    /\ UNCHANGED <<q_bits, msg, g, x, y, k, sig, valid, n, prime>>

(***************************************************************************)
(* find_generator, generate_keys, sign, verify.                            *)
(***************************************************************************)
\* one iteration of find_generator
FindGenerator ==
    /\ pc = "find_generator"
    /\ IF randrange_raises(2, p - 1)
       THEN pc' = "raised" /\ g' = g
       ELSE \E h \in randrange(2, p - 1) :
                /\ g' = find_generator_g(h, p, q)
                /\ pc' = IF g' > 1 THEN "generate_keys" ELSE "find_generator"
    /\ UNCHANGED <<q_bits, msg, q, p, x, y, k, sig, valid, n, prime>>

GenerateKeys ==
    /\ pc = "generate_keys"
    /\ IF randrange_raises(2, p - 2)
       THEN pc' = "raised" /\ UNCHANGED <<x, y>>
       ELSE \E xx \in randrange(2, p - 2) :
                /\ x' = xx
                /\ y' = pow(g, xx, p)
                /\ pc' = "sign"
    /\ UNCHANGED <<q_bits, msg, q, p, g, k, sig, valid, n, prime>>

\* one iteration of the retry loop of sign
Sign ==
    /\ pc = "sign"
    /\ IF randrange_raises(2, q - 1)
       THEN pc' = "raised" /\ UNCHANGED <<k, sig>>
       ELSE \E kk \in randrange(2, q - 1) :
                LET it == sign_iteration(msg, p, g, x, q, kk)
                IN  /\ k' = kk
                    /\ sig' = IF it.ret THEN <<it.r, it.s>> ELSE sig
                    /\ pc' = IF it.ret THEN "verify" ELSE "sign"
    /\ UNCHANGED <<q_bits, msg, q, p, g, x, y, valid, n, prime>>

Verify ==
    /\ pc = "verify"
    /\ valid' = verify(msg, sig, p, g, y, q)
    /\ pc' = IF verify_raises(sig, p, q) THEN "raised" ELSE "done"
    /\ UNCHANGED <<q_bits, msg, q, p, g, x, y, k, sig, n, prime>>

Next ==
    \/ GeneratePrimeCandidate
    \/ IsPrimeQ
    \/ IsPrimeP
    \/ FindGenerator
    \/ GenerateKeys
    \/ Sign
    \/ Verify

Spec == Init /\ [][Next]_vars

(***************************************************************************)
(* generate_p_q on its own, at larger bit-lengths.                         *)
(***************************************************************************)
InitGen ==
    /\ pc = "generate_prime"
    /\ q_bits \in 8..MaxGenBits
    /\ msg = "HELLO WORLD"
    /\ q = 0 /\ p = 0 /\ g = 0 /\ x = 0 /\ y = 0 /\ k = 0
    /\ sig = <<0, 0>>
    /\ valid = FALSE
    /\ n = 0 /\ prime = FALSE

NextGen ==
    \/ GeneratePrimeCandidate
    \/ IsPrimeQ
    \/ IsPrimeP

SpecGen == InitGen /\ [][NextGen]_vars

(***************************************************************************)
(* is_prime on its own, on every n of a range.                             *)
(***************************************************************************)
InitPrime ==
    /\ pc = "is_prime"
    /\ n \in (-2)..MaxPrimeN
    /\ q_bits = 0
    /\ msg = "HELLO WORLD"
    /\ q = 0 /\ p = 0 /\ g = 0 /\ x = 0 /\ y = 0 /\ k = 0
    /\ sig = <<0, 0>>
    /\ valid = FALSE
    /\ prime = FALSE

IsPrimeCall ==
    /\ pc = "is_prime"
    /\ \E res \in is_prime(n, MRRounds) : prime' = res
    /\ pc' = "is_prime_done"
    /\ UNCHANGED <<q_bits, msg, q, p, g, x, y, k, sig, valid, n>>

SpecPrime == InitPrime /\ [][IsPrimeCall]_vars

(***************************************************************************)
(* verify on its own, on arbitrary arguments.                              *)
(***************************************************************************)
InitVerify ==
    /\ pc = "verify"
    /\ msg \in Messages
    /\ p \in (-1)..MaxVerifyP
    /\ q \in (-1)..MaxVerifyQ
    /\ g \in 0..MaxVerifyP
    /\ y \in 0..MaxVerifyP
    /\ sig \in ((-1)..(MaxVerifyP + 1)) \X ((-1)..(MaxVerifyQ + 1))
    /\ q_bits = 0 /\ x = 0 /\ k = 0
    /\ valid = FALSE
    /\ n = 0 /\ prime = FALSE

SpecVerify == InitVerify /\ [][Verify]_vars

(***************************************************************************)
(* Definitions used to state the properties.                               *)
(***************************************************************************)
\* primality by trial division, independent of is_prime
TrialPrime(m) == m >= 2 /\ \A d \in 2..(m - 1) : d * d <= m => m % d # 0

RECURSIVE BitLength(_)
\* number of bits of a non-negative integer
BitLength(m) == IF m = 0 THEN 0 ELSE 1 + BitLength(m \div 2)

\* v with bit i inverted
FlipBit(v, i) == IF (v \div Pow2(i)) % 2 = 1 THEN v - Pow2(i) ELSE v + Pow2(i)

\* m is a proper multiple of one of the small primes
SmallMultiple(m) ==
    \E i \in 1..Len(SmallPrimes) : m # SmallPrimes[i] /\ m % SmallPrimes[i] = 0

\* a composite without a factor up to 23 that some witness of [2, m-2] passes
StrongPseudoprime(m) ==
    /\ ~TrialPrime(m)
    /\ m >= 2
    /\ small_primes_check(m, 1) = "none"
    /\ LET rd == decompose(0, m - 1)
       IN  \E a \in randrange(2, m - 1) : witness_passes(a, rd[1], rd[2], m)

\* sign has just returned <<r, s>> to main
Signed == pc = "verify"
\* find_generator has just returned g to main
HasGenerator == pc = "generate_keys"
\* the signature handed to verify is out of range
Malformed == sig[1] <= 0 \/ sig[1] >= p \/ sig[2] <= 0 \/ sig[2] >= q

(***************************************************************************)
(* Properties.                                                             *)
(***************************************************************************)

\* C1: round trip. Every signature returned by sign on the pipeline's
\* parameters and keys is accepted by verify on the same message.
RoundTrip == pc = "done" => valid = TRUE

RoundTripWitness ==
    /\ pc = "done"
    /\ valid = TRUE
    /\ sig[1] = pow(g, k, p)
    /\ sig[2] = sign_s(k, hash_message_mod(msg, q), x, sig[1], q)

\* C2: message tampering. A signature returned by sign on msg is rejected on
\* every message whose digest reduced mod q differs from that of msg.
MessageTamper ==
    Signed =>
        \A m2 \in Messages :
            hash_message_mod(m2, q) # hash_message_mod(msg, q)
                => ~verify(m2, sig, p, g, y, q)

MessageTamperWitness ==
    /\ Signed
    /\ verify(msg, sig, p, g, y, q)
    /\ \E m2 \in Messages :
           /\ hash_message_mod(m2, q) # hash_message_mod(msg, q)
           /\ ~verify(m2, sig, p, g, y, q)

\* C3 (as claimed): public-key tampering. A signature returned by sign is
\* rejected under every public key that differs from y in exactly one bit.
KeyTamper ==
    Signed =>
        \A i \in 0..MaxFlipBit : ~verify(msg, sig, p, g, FlipBit(y, i), q)

\* C3 (amended): a signature returned by sign is rejected under every public
\* key y2 that differs from y in exactly one bit, unless q divides r, or r is
\* even and y2 = -y (mod p).
KeyTamperAmended ==
    Signed =>
        \A i \in 0..MaxFlipBit :
            LET y2 == FlipBit(y, i)
            IN  verify(msg, sig, p, g, y2, q)
                    => \/ sig[1] % q = 0
                       \/ sig[1] % 2 = 0 /\ (y2 + y) % p = 0

KeyTamperWitness ==
    /\ Signed
    /\ sig[1] % q # 0
    /\ sig[1] % 2 = 0
    /\ verify(msg, sig, p, g, y, q)
    /\ \A i \in 0..MaxFlipBit : ~verify(msg, sig, p, g, FlipBit(y, i), q)

\* C4: verify is total on malformed signatures. Whenever r <= 0, r >= p,
\* s <= 0 or s >= q, verify returns False, and it never raises.
MalformedRejected ==
    /\ pc # "raised"
    /\ pc = "done" /\ Malformed => valid = FALSE

MalformedRejectedWitness ==
    /\ pc = "done"
    /\ valid = FALSE
    /\ sig[2] = q
    /\ 0 < sig[1] /\ sig[1] < p
    /\ q >= 2
    /\ verify_equation(msg, sig[1], sig[2], p, g, y, q)

\* C5: signature range. Every pair <<r, s>> returned by sign has 0 < r < p
\* and 0 < s < q, and r = g^k mod p for the k of the accepted iteration.
SignatureRange ==
    Signed =>
        /\ 0 < sig[1] /\ sig[1] < p
        /\ 0 < sig[2] /\ sig[2] < q
        /\ sig[1] = pow(g, k, p)

SignatureRangeWitness ==
    /\ Signed
    /\ sig[2] = q - 1
    /\ sig[1] = pow(g, k, p)
    /\ sig[1] > q

\* C6 (as claimed): generate_p_q(b) returns only pairs with p = 2q + 1, q of
\* exactly b bits, and both p and q prime by trial division, whatever
\* candidates and Miller-Rabin witnesses are drawn.
SafePrimePair ==
    pc = "find_generator" =>
        /\ p = 2 * q + 1
        /\ BitLength(q) = q_bits
        /\ TrialPrime(q)
        /\ TrialPrime(p)

\* C6 (amended): generate_p_q(b) returns only pairs with p = 2q + 1 and q of
\* exactly b bits, where each of p and q is prime by trial division or a
\* composite without a factor up to 23 that has a strong liar in [2, n-2];
\* for b in 8..10 both are prime.
SafePrimePairAmended ==
    pc = "find_generator" =>
        /\ p = 2 * q + 1
        /\ BitLength(q) = q_bits
        /\ TrialPrime(q) \/ StrongPseudoprime(q)
        /\ TrialPrime(p) \/ StrongPseudoprime(p)
        /\ q_bits <= 10 => TrialPrime(q) /\ TrialPrime(p)

SafePrimePairWitness ==
    /\ pc = "find_generator"
    /\ q_bits = 8
    /\ p = 2 * q + 1
    /\ TrialPrime(q)
    /\ TrialPrime(p)

\* C7: find_generator returns g with 1 < g < p and g^q mod p = 1, and g has
\* multiplicative order exactly q modulo p.
GeneratorOrder ==
    HasGenerator =>
        /\ 1 < g /\ g < p
        /\ pow(g, q, p) = 1
        /\ \A j \in 1..(q - 1) : pow(g, j, p) # 1

GeneratorOrderWitness ==
    /\ pc = "generate_keys"
    /\ q > 3
    /\ 1 < g /\ g < p
    /\ pow(g, q, p) = 1

\* C8: is_prime is exact on these inputs whatever witnesses are drawn: False
\* for n < 2 and for proper multiples of 2, 3, .., 23; True for every prime.
IsPrimeExact ==
    pc = "is_prime_done" =>
        /\ n < 2 => prime = FALSE
        /\ n >= 2 /\ SmallMultiple(n) => prime = FALSE
        /\ TrialPrime(n) => prime = TRUE
        /\ n = 2 \/ n = 97 => prime = TRUE
        /\ n = 4 \/ n = 561 => prime = FALSE

IsPrimeExactWitness ==
    /\ pc = "is_prime_done"
    /\ n = 97
    /\ prime = TRUE

\* C9: no operation of the pipeline raises, for every q_bits >= 2.
NoRaise == pc # "raised"

\* C10: sign can return. Whenever sign is running on pipeline-generated
\* parameters, key and digest, and its draw range [2, q-2] is not empty
\* (the empty range of q = 3 is the subject of C9), some k of the range
\* makes the iteration return.
SignCanReturn ==
    pc = "sign" /\ q > 3 =>
        \E kk \in randrange(2, q - 1) : sign_iteration(msg, p, g, x, q, kk).ret

====
